---- MODULE Spec2Model ----
(***************************************************************************)
(* Model of the DCA journey dashboard: the sheet parser and aggregator of  *)
(* services/dataService.ts (parseCsv, processData, fetchAllDcaData,        *)
(* fetchLivePrices) and the page component of App.tsx (loadInitialData,    *)
(* the 60-second price timer, handleRefresh, the view toggles and the      *)
(* derived values conversionRate, livePricePerGram, liveSummary).          *)
(*                                                                         *)
(* JavaScript numbers are modelled as exact rationals together with NaN,   *)
(* +Infinity, -Infinity and undefined.  The sheet inputs of the model are  *)
(* dyadic decimals, for which IEEE-754 sums and products are exact, so the *)
(* aggregator's arithmetic is the arithmetic of the code.  Negative zero   *)
(* is not distinguished from zero.                                         *)
(***************************************************************************)
EXTENDS Integers, Sequences, FiniteSets, TLC

(***************************************************************************)
(* JavaScript values                                                       *)
(***************************************************************************)
null == [k |-> "null"]
undefined == [k |-> "undef"]
NaN == [k |-> "nan"]
PosInf == [k |-> "inf", s |-> 1]
NegInf == [k |-> "inf", s |-> -1]

Abs(i) == IF i < 0 THEN -i ELSE i
Sign(i) == IF i < 0 THEN -1 ELSE IF i = 0 THEN 0 ELSE 1

RECURSIVE GCD(_, _)
GCD(a, b) == IF b = 0 THEN a ELSE GCD(b, a % b)

\* the finite number n/d in lowest terms (d # 0)
Fin(n, d) ==
    LET g == GCD(Abs(n), Abs(d))
    IN  [k |-> "fin", n |-> (Sign(d) * n) \div g, d |-> Abs(d) \div g]

Num(i) == Fin(i, 1)

IsFin(x) == x.k = "fin"
IsInf(x) == x.k = "inf"
\* ToNumber: undefined becomes NaN
ToNumber(x) == IF x.k \in {"fin", "inf", "nan"} THEN x ELSE NaN
\* sign of a finite or infinite number
SignOf(x) == IF IsInf(x) THEN x.s ELSE Sign(x.n)
InfOf(s) == IF s < 0 THEN NegInf ELSE PosInf

\* x + y
Add(a, b) ==
    LET x == ToNumber(a)
        y == ToNumber(b)
    IN  IF x = NaN \/ y = NaN THEN NaN
        ELSE IF IsInf(x) /\ IsInf(y) THEN (IF x.s = y.s THEN x ELSE NaN)
        ELSE IF IsInf(x) THEN x
        ELSE IF IsInf(y) THEN y
        ELSE LET g == GCD(x.d, y.d)
             IN  Fin(x.n * (y.d \div g) + y.n * (x.d \div g), x.d * (y.d \div g))

\* -x
Neg(a) ==
    LET x == ToNumber(a)
    IN  IF x = NaN THEN NaN
        ELSE IF IsInf(x) THEN InfOf(-x.s)
        ELSE Fin(-x.n, x.d)

\* x - y
Sub(a, b) == Add(a, Neg(b))

\* x * y
Mul(a, b) ==
    LET x == ToNumber(a)
        y == ToNumber(b)
    IN  IF x = NaN \/ y = NaN THEN NaN
        ELSE IF IsInf(x) \/ IsInf(y)
             THEN (IF SignOf(x) = 0 \/ SignOf(y) = 0 THEN NaN
                   ELSE InfOf(SignOf(x) * SignOf(y)))
        ELSE LET g1 == GCD(Abs(x.n), y.d)
                 g2 == GCD(Abs(y.n), x.d)
             IN  Fin((x.n \div g1) * (y.n \div g2), (x.d \div g2) * (y.d \div g1))

\* x / y
Div(a, b) ==
    LET x == ToNumber(a)
        y == ToNumber(b)
    IN  IF x = NaN \/ y = NaN THEN NaN
        ELSE IF IsInf(x) THEN (IF IsInf(y) THEN NaN
                               ELSE InfOf(x.s * (IF y.n < 0 THEN -1 ELSE 1)))
        ELSE IF IsInf(y) THEN Num(0)
        ELSE IF y.n = 0 THEN (IF x.n = 0 THEN NaN ELSE InfOf(Sign(x.n)))
        ELSE Mul(x, Fin(y.d, y.n))

\* x > y (false when either is NaN)
Gt(a, b) ==
    LET x == ToNumber(a)
        y == ToNumber(b)
    IN  IF x = NaN \/ y = NaN THEN FALSE
        ELSE IF IsInf(x) THEN x.s = 1 /\ x # y
        ELSE IF IsInf(y) THEN y.s = -1
        ELSE x.n * y.d > y.n * x.d

\* x >= y (false when either is NaN)
Ge(a, b) == Gt(a, b) \/ (ToNumber(a) # NaN /\ ToNumber(a) = ToNumber(b))

\* isNaN(x)
isNaN(x) == ToNumber(x) = NaN

\* truthiness of a number or of undefined/null: 0, NaN, undefined, null are falsy
TruthyNum(x) ==
    /\ x.k \in {"fin", "inf"}
    /\ ~(IsFin(x) /\ x.n = 0)

\* parseFloat(x.toFixed(2)): the nearest multiple of 1/100, ties away from zero
ToFixed2(a) ==
    LET x == ToNumber(a)
    IN  IF ~IsFin(x) THEN x
        ELSE LET m == Abs(x.n) * 100
                 q == m \div x.d
                 r == m % x.d
                 n == IF 2 * r >= x.d THEN q + 1 ELSE q
             IN  Fin(Sign(x.n) * n, 100)

(***************************************************************************)
(* Text: the characters of a string are a sequence of one-character        *)
(* strings; a JavaScript string value is Str(chars)                        *)
(***************************************************************************)
Str(chars) == [k |-> "str", s |-> chars]
Digits == {"0", "1", "2", "3", "4", "5", "6", "7", "8", "9"}
DigitVal(c) ==
    CASE c = "0" -> 0 [] c = "1" -> 1 [] c = "2" -> 2 [] c = "3" -> 3
      [] c = "4" -> 4 [] c = "5" -> 5 [] c = "6" -> 6 [] c = "7" -> 7
      [] c = "8" -> 8 [] c = "9" -> 9

RECURSIVE Pow10(_)
Pow10(e) == IF e = 0 THEN 1 ELSE 10 * Pow10(e - 1)

\* number of digit characters of s starting at position i
RECURSIVE DigitRun(_, _)
DigitRun(s, i) ==
    IF i <= Len(s) /\ s[i] \in Digits THEN 1 + DigitRun(s, i + 1) ELSE 0

\* value of the n digit characters of s starting at position i
RECURSIVE DigitsValue(_, _, _)
DigitsValue(s, i, n) ==
    IF n = 0 THEN 0
    ELSE DigitsValue(s, i, n - 1) * 10 + DigitVal(s[i + n - 1])

\* String.prototype.trim on a cell: strip leading and trailing blanks
RECURSIVE TrimLeft(_)
TrimLeft(s) == IF Len(s) > 0 /\ s[1] = " " THEN TrimLeft(Tail(s)) ELSE s
RECURSIVE TrimRight(_)
TrimRight(s) ==
    IF Len(s) > 0 /\ s[Len(s)] = " " THEN TrimRight(SubSeq(s, 1, Len(s) - 1)) ELSE s
Trim(s) == TrimRight(TrimLeft(s))

\* parseFloat: optional sign, the longest decimal-literal prefix (digits,
\* optional fraction), the rest of the text ignored; NaN when no digit is
\* found or the argument is undefined
parseFloat(v) ==
    IF v = undefined THEN NaN
    ELSE LET s == TrimLeft(v.s)
             signed == Len(s) > 0 /\ s[1] \in {"-", "+"}
             start == IF signed THEN 2 ELSE 1
             intLen == DigitRun(s, start)
             dot == start + intLen
             hasDot == dot <= Len(s) /\ s[dot] = "."
             fracLen == IF hasDot THEN DigitRun(s, dot + 1) ELSE 0
             mag == DigitsValue(s, start, intLen) * Pow10(fracLen)
                      + DigitsValue(s, dot + 1, fracLen)
         IN  IF intLen + fracLen = 0 THEN NaN
             ELSE Fin(IF signed /\ s[1] = "-" THEN -mag ELSE mag, Pow10(fracLen))

\* new Date(v) for the ISO form YYYY-MM-DD; any other text, and undefined,
\* give the Invalid Date object.  A Date is an object either way.
NewDate(v) ==
    LET InvalidDate == [k |-> "date", valid |-> FALSE, y |-> 0, m |-> 0, d |-> 0]
    IN  IF v = undefined THEN InvalidDate
        ELSE LET s == v.s
                 shape == /\ Len(s) = 10
                          /\ s[5] = "-" /\ s[8] = "-"
                          /\ \A i \in {1, 2, 3, 4, 6, 7, 9, 10} : s[i] \in Digits
             IN  IF ~shape THEN InvalidDate
                 ELSE LET y == DigitsValue(s, 1, 4)
                          m == DigitsValue(s, 6, 2)
                          d == DigitsValue(s, 9, 2)
                      IN  IF m \in 1..12 /\ d \in 1..31
                          THEN [k |-> "date", valid |-> TRUE, y |-> y, m |-> m, d |-> d]
                          ELSE InvalidDate

\* truthiness of a value used as a condition: objects (Date included, valid
\* or not) are truthy, null and undefined are falsy
Truthy(v) == v.k \notin {"null", "undef"}

\* date.toLocaleDateString('en-US', {month: 'short', day: 'numeric'})
ShortDateLabel(date) ==
    IF date.valid THEN [k |-> "label", m |-> date.m, d |-> date.d]
    ELSE [k |-> "label", m |-> 0, d |-> 0]

(***************************************************************************)
(* services/dataService.ts: the sheet pipeline                             *)
(***************************************************************************)
AssetType == {"BTC", "GOLD"}

cDate == <<"D", "a", "t", "e">>
cInvested == <<"I", "n", "v", "e", "s", "t", "e", "d", " ", "(", "T", "H", "B", ")">>
cBtcPrice == <<"B", "T", "C", " ", "P", "r", "i", "c", "e", " ", "(", "T", "H", "B", ")">>
cBtcPurchased == <<"B", "T", "C", " ", "P", "u", "r", "c", "h", "a", "s", "e", "d">>
cGoldDate == <<"G", "o", "l", "d", " ", "D", "a", "t", "e">>
cGoldInvested == <<"I", "n", "v", "e", "s", "t", "e", "d", " ", "G", "o", "l", "d", " ", "(", "T", "H", "B", ")">>
cGoldPrice == <<"G", "o", "l", "d", " ", "P", "r", "i", "c", "e", " ", "(", "T", "H", "B", ")">>
cGoldPurchased == <<"G", "o", "l", "d", " ", "P", "u", "r", "c", "h", "a", "s", "e", "d", " ", "(", "g", ")">>

COLUMN_MAP ==
    [BTC  |-> [date |-> cDate, invested |-> cInvested,
               price |-> cBtcPrice, purchased |-> cBtcPurchased],
     GOLD |-> [date |-> cGoldDate, invested |-> cGoldInvested,
               price |-> cGoldPrice, purchased |-> cGoldPurchased]]

\* Object.values(assetColumns)
ColumnNames(asset) ==
    <<COLUMN_MAP[asset].date, COLUMN_MAP[asset].invested,
      COLUMN_MAP[asset].price, COLUMN_MAP[asset].purchased>>

\* The sheet text is a sequence of lines, a line the sequence of its
\* comma-separated cells (at least one), a cell its characters.
BlankLine(line) == Len(line) = 1 /\ Trim(line[1]) = <<>>

RECURSIVE DropLeadingBlank(_)
DropLeadingBlank(lines) ==
    IF Len(lines) > 0 /\ BlankLine(lines[1]) THEN DropLeadingBlank(Tail(lines))
    ELSE lines
RECURSIVE DropTrailingBlank(_)
DropTrailingBlank(lines) ==
    IF Len(lines) > 0 /\ BlankLine(lines[Len(lines)])
    THEN DropTrailingBlank(SubSeq(lines, 1, Len(lines) - 1))
    ELSE lines

\* csvText.trim().split(/\r\n|\n/): leading and trailing white space goes,
\* blank lines included; the empty text splits into one empty line
TrimSplitLines(csvText) ==
    LET ls == DropTrailingBlank(DropLeadingBlank(csvText))
    IN  IF ls = <<>> THEN << << <<>> >> >> ELSE ls

\* line.split(',').map(v => v.trim())
TrimCells(line) == [i \in 1..Len(line) |-> Trim(line[i])]

\* Array.prototype.indexOf, zero-based, -1 when absent
RECURSIVE indexOfFrom(_, _, _)
indexOfFrom(arr, x, i) ==
    IF i > Len(arr) THEN -1
    ELSE IF arr[i] = x THEN i - 1
    ELSE indexOfFrom(arr, x, i + 1)
indexOf(arr, x) == indexOfFrom(arr, x, 1)

\* values[index]: undefined beyond the end of the array
At(values, index) ==
    IF index + 1 \in 1..Len(values) THEN Str(values[index + 1]) ELSE undefined

\* an error message is the sequence of its literal and interpolated parts
Message(parts) == [k |-> "msg", parts |-> parts]
EmptyCsvError == Message(<<"CSV file is empty or has only a header.">>)
ColumnsError(asset) ==
    Message(<<"Columns for ", asset,
              " not found in the Google Sheet. Please ensure the following headers are present and correct in the published CSV: ">>
            \o [i \in 1..4 |-> ColumnNames(asset)[i]]
            \o <<". Empty columns between BTC and Gold data may cause this issue.">>)
NoRowsError(asset) ==
    Message(<<"No valid transaction rows found for ", asset,
              ". Please check the data in your Google Sheet.">>)

\* the row filter of parseCsv
RowFilter(d) ==
    /\ Truthy(d.date)
    /\ ~isNaN(d.invested)
    /\ ~isNaN(d.assetPrice)
    /\ ~isNaN(d.assetPurchased)
    /\ Gt(d.invested, Num(0))

\* Array.prototype.filter with the row filter: kept rows, in order
RECURSIVE FilterRows(_)
FilterRows(rows) ==
    IF rows = <<>> THEN <<>>
    ELSE IF RowFilter(Head(rows)) THEN <<Head(rows)>> \o FilterRows(Tail(rows))
    ELSE FilterRows(Tail(rows))

\* the transaction read from one data line
ParseRow(line, dateIndex, investedIndex, priceIndex, purchasedIndex) ==
    LET values == TrimCells(line)
    IN  [date |-> NewDate(At(values, dateIndex)),
         invested |-> parseFloat(At(values, investedIndex)),
         assetPrice |-> parseFloat(At(values, priceIndex)),
         assetPurchased |-> parseFloat(At(values, purchasedIndex))]

parseCsv(csvText, asset) ==
    LET lines == TrimSplitLines(csvText)
        header == TrimCells(lines[1])
        dataRows == Tail(lines)
        assetColumns == COLUMN_MAP[asset]
        dateIndex == indexOf(header, assetColumns.date)
        investedIndex == indexOf(header, assetColumns.invested)
        priceIndex == indexOf(header, assetColumns.price)
        purchasedIndex == indexOf(header, assetColumns.purchased)
        mapped == [i \in 1..Len(dataRows) |->
                     ParseRow(dataRows[i], dateIndex, investedIndex,
                              priceIndex, purchasedIndex)]
    IN  IF Len(lines) < 2 THEN [data |-> <<>>, error |-> EmptyCsvError]
        ELSE IF -1 \in {dateIndex, investedIndex, priceIndex, purchasedIndex}
             THEN [data |-> <<>>, error |-> ColumnsError(asset)]
        ELSE [data |-> FilterRows(mapped), error |-> null]

\* Running with the unit total not carried from row to row
RunningNoCarry(data, i) ==
    IF i = 0 THEN [cumulativeInvested |-> Num(0), cumulativeAmount |-> Num(0)]
    ELSE [cumulativeInvested |->
              Add(data[i].invested,
                  IF i = 1 THEN Num(0) ELSE Add(data[i - 1].invested, Num(0))),
          cumulativeAmount |-> data[i].assetPurchased]

\* the running totals of processData after the first i rows
RECURSIVE Running(_, _)
Running(data, i) ==
    IF i = 0 THEN [cumulativeInvested |-> Num(0), cumulativeAmount |-> Num(0)]
    ELSE LET prev == Running(data, i - 1)
         IN  [cumulativeInvested |-> Add(prev.cumulativeInvested, data[i].invested),
              cumulativeAmount |-> Add(prev.cumulativeAmount, data[i].assetPurchased)]

processData(data) ==
    IF Len(data) = 0
    THEN [chartData |-> <<>>, summaryData |-> null, rawData |-> <<>>, error |-> undefined]
    ELSE LET chartData ==
                 [i \in 1..Len(data) |->
                    LET run == Running(data, i)
                        portValue == Mul(run.cumulativeAmount, data[i].assetPrice)
                    IN  [date |-> ShortDateLabel(data[i].date),
                         portValue |-> ToFixed2(portValue),
                         assetValue |-> ToFixed2(run.cumulativeInvested),
                         cumulativeAmount |-> run.cumulativeAmount]]
             total == Running(data, Len(data))
             finalDataPoint == data[Len(data)]
             finalPortValue == Mul(total.cumulativeAmount, finalDataPoint.assetPrice)
             profit == Sub(finalPortValue, total.cumulativeInvested)
             profitPercentage == Mul(Div(profit, total.cumulativeInvested), Num(100))
             entryPrice == Div(total.cumulativeInvested, total.cumulativeAmount)
             summaryData ==
                 [k |-> "summary",
                  profitPercentage |-> profitPercentage,
                  totalCapital |-> total.cumulativeInvested,
                  entryPrice |-> entryPrice,
                  startDate |-> data[1].date,
                  portValue |-> finalPortValue,
                  lastUpdated |-> finalDataPoint.date,
                  totalAmount |-> total.cumulativeAmount]
         IN  [chartData |-> chartData, summaryData |-> summaryData,
              rawData |-> data, error |-> undefined]

\* the bundle fetchAllDcaData stores for one asset
BundleOf(csvText, asset) ==
    LET parsed == parseCsv(csvText, asset)
    IN  IF Truthy(parsed.error)
        THEN [chartData |-> <<>>, summaryData |-> null, rawData |-> <<>>,
              error |-> parsed.error]
        ELSE IF Len(parsed.data) = 0
        THEN [chartData |-> <<>>, summaryData |-> null, rawData |-> <<>>,
              error |-> NoRowsError(asset)]
        ELSE processData(parsed.data)

\* fetchAllDcaData giving up on every asset once one asset has an error
fetchAllDcaDataFirstErrorWins(csvText) ==
    LET btc == BundleOf(csvText, "BTC")
        gold == BundleOf(csvText, "GOLD")
    IN  [k |-> "dca",
         BTC  |-> IF Truthy(gold.error) THEN [gold EXCEPT !.error = ColumnsError("BTC")]
                  ELSE btc,
         GOLD |-> IF Truthy(btc.error) THEN [btc EXCEPT !.error = ColumnsError("GOLD")]
                  ELSE gold]

\* fetchAllDcaData once the sheet request has answered with text csvText
fetchAllDcaData(csvText) ==
    [k |-> "dca", BTC |-> BundleOf(csvText, "BTC"), GOLD |-> BundleOf(csvText, "GOLD")]

(***************************************************************************)
(* services/dataService.ts: the live price fetch                           *)
(***************************************************************************)
TROY_OUNCE_TO_GRAMS == Fin(311035, 10000)
GOLD_CONVERSION_GRAMS == Fin(1471, 100)

\* array?.[0] and object?.field: undefined when absent
First(arr) == IF Len(arr) > 0 THEN arr[1] ELSE undefined

\* the settled promise of an async function
Resolved(value) == [k |-> "resolved", value |-> value]
Rejected(message) == [k |-> "rejected", message |-> message]

CouldNotFetchLivePrices == Message(<<"Could not fetch live prices.">>)

\* the PriceInfo built from one goldprice.org item
GoldPriceInfo(raw) ==
    [k |-> "PriceInfo",
     price |-> Mul(Div(raw.xauPrice, TROY_OUNCE_TO_GRAMS), GOLD_CONVERSION_GRAMS),
     change24h |-> Mul(Div(raw.chgXau, TROY_OUNCE_TO_GRAMS), GOLD_CONVERSION_GRAMS),
     change24hPercentage |-> raw.pcXau]

\* the PriceInfo built from one CoinGecko market entry
BtcPriceInfo(m) ==
    [k |-> "PriceInfo",
     price |-> m.current_price,
     change24h |-> m.price_change_24h,
     change24hPercentage |-> m.price_change_percentage_24h]

\* fetchLivePrices on the four responses of a feed: any throw inside the try
\* block (a rejected fetch, a status that is not ok, a missing first entry,
\* a falsy BTC/USD price) is rethrown as the one error message
fetchLivePrices(feed) ==
    LET responses == <<feed.btcUsd, feed.btcThb, feed.goldThb, feed.goldUsd>>
        btcUsd == First(feed.btcUsd.data)
        btcThb == First(feed.btcThb.data)
        goldThbRaw == First(feed.goldThb.data)
        goldUsdRaw == First(feed.goldUsd.data)
    IN  IF \E i \in 1..4 : responses[i].rejected THEN Rejected(CouldNotFetchLivePrices)
        ELSE IF \E i \in 1..4 : ~responses[i].ok THEN Rejected(CouldNotFetchLivePrices)
        ELSE IF ~Truthy(btcUsd) \/ ~Truthy(btcThb) THEN Rejected(CouldNotFetchLivePrices)
        ELSE LET btcPrices == [usd |-> BtcPriceInfo(btcUsd), thb |-> BtcPriceInfo(btcThb)]
             IN  IF ~TruthyNum(btcPrices.usd.price) THEN Rejected(CouldNotFetchLivePrices)
                 ELSE IF ~Truthy(goldThbRaw) \/ ~Truthy(goldUsdRaw)
                      THEN Rejected(CouldNotFetchLivePrices)
                 ELSE LET goldPrices == [thb |-> GoldPriceInfo(goldThbRaw),
                                         usd |-> GoldPriceInfo(goldUsdRaw)]
                          thbUsdRate == Div(btcPrices.thb.price, btcPrices.usd.price)
                      IN  Resolved([prices |-> [k |-> "prices", BTC |-> btcPrices,
                                                GOLD |-> goldPrices],
                                    thbUsdRate |-> thbUsdRate])

(***************************************************************************)
(* Price feed inputs                                                       *)
(***************************************************************************)
Response(data) == [rejected |-> FALSE, ok |-> TRUE, data |-> data]
HttpError == [rejected |-> FALSE, ok |-> FALSE, data |-> <<>>]
NetworkError == [rejected |-> TRUE, ok |-> FALSE, data |-> <<>>]

Market(price, change, pct) ==
    [k |-> "market", current_price |-> price, price_change_24h |-> change,
     price_change_percentage_24h |-> pct]
GoldItem(price, change, pct) ==
    [k |-> "item", xauPrice |-> price, chgXau |-> change, pcXau |-> pct]

\* a complete feed: BTC at 2 USD and 70 THB, gold at 2000 USD and 10000 THB a gram
FeedA ==
    [btcUsd  |-> Response(<<Market(Num(2), Num(1), Num(50))>>),
     btcThb  |-> Response(<<Market(Num(70), Num(35), Num(50))>>),
     goldThb |-> Response(<<GoldItem(Num(311035), Num(0), Num(0))>>),
     goldUsd |-> Response(<<GoldItem(Fin(62207, 1), Fin(-62207, 1000), Fin(-1, 10))>>)]
\* a complete feed with other prices: BTC at 3 USD and 90 THB
FeedB ==
    [FeedA EXCEPT !.btcUsd = Response(<<Market(Num(3), Num(-1), Num(-25))>>),
                  !.btcThb = Response(<<Market(Num(90), Num(-30), Num(-25))>>),
                  !.goldThb = Response(<<GoldItem(Fin(311035, 2), Num(0), Num(0))>>)]

\* the feeds a price fetch can meet: complete ones, a failed request, an
\* empty market list, a BTC/THB entry without current_price and a gold item
\* without its 24-hour change
Feeds ==
    { FeedA, FeedB,
      [FeedA EXCEPT !.goldUsd = HttpError],
      [FeedB EXCEPT !.btcThb = NetworkError],
      [FeedA EXCEPT !.btcUsd = Response(<<>>)],
      [FeedA EXCEPT !.btcThb = Response(<<Market(undefined, Num(35), Num(50))>>)],
      [FeedA EXCEPT !.goldThb = Response(<<GoldItem(Num(311035), undefined, undefined)>>)] }

(***************************************************************************)
(* Sheet inputs                                                            *)
(***************************************************************************)
\* the largest number of data lines of a sheet
MaxLines == 3

tD1 == <<"2", "0", "2", "4", "-", "0", "1", "-", "0", "5">>
tD2 == <<"2", "0", "2", "4", "-", "0", "2", "-", "0", "5">>
tBad == <<"n", "/", "a">>

\* the BTC cells of a data line: date, invested, price, purchased
BtcCells ==
    { <<tD1, <<"2">>, <<"0", ".", "2", "5">>, <<"0", ".", "5">>>>,
      <<tD2, <<" ", "1", ".", "5">>, <<"3">>, <<"0", ".", "1", "2", "5", " ">>>>,
      <<tD1, <<"-", "1", ".", "5">>, <<"3">>, <<"1">>>>,
      <<tD1, <<"0">>, <<"3">>, <<"1">>>>,
      <<tD1, <<"2">>, tBad, <<"1">>>>,
      <<tBad, <<"2">>, <<"3">>, <<"1">>>>,
      <<tD2, <<"2">>, <<"3", "x">>, <<"0">>>>,
      <<tD2, <<"2">>, <<"3">>, <<"-", "1">>>> }

\* the GOLD cells of a data line
GoldCells == <<tD1, <<"2">>, <<"3">>, <<"0", ".", "5">>>>
NoCells == << <<>>, <<>>, <<>>, <<>> >>

\* the data lines a sheet is made of: eight-cell lines, a line with the
\* gold cells empty, a line cut short and a blank line
Lines ==
    {b \o GoldCells : b \in BtcCells}
      \cup { <<tD2, <<"1", ".", "5">>, <<"3">>, <<"0", ".", "1", "2", "5">>>> \o NoCells,
             <<tD1, <<"2">>>>,
             << <<>> >> }

\* header lines: all eight columns, "BTC Purchased" missing, the BTC columns
\* only, and the gold columns first with padded names
Headers ==
    { <<cDate, cInvested, cBtcPrice, cBtcPurchased,
        cGoldDate, cGoldInvested, cGoldPrice, cGoldPurchased>>,
      <<cDate, cInvested, cBtcPrice,
        cGoldDate, cGoldInvested, cGoldPrice, cGoldPurchased>>,
      <<cDate, cInvested, cBtcPrice, cBtcPurchased>>,
      <<cGoldDate, <<" ">> \o cGoldInvested, cGoldPrice, cGoldPurchased \o <<" ">>,
        cDate, cInvested, cBtcPrice, cBtcPurchased>> }

(***************************************************************************)
(* State                                                                   *)
(***************************************************************************)
VARIABLES
    csvText,              \* fetchAllDcaData: the text of the published sheet
    dcaResult,            \* fetchAllDcaData: the value returned for csvText, or null
    loading,              \* App state
    error,                \* App state: message or null
    allDcaData,           \* App state: the bundles of both assets, or null
    timeRange,            \* App state: "W", "M" or "Y"
    currency,             \* App state: "THB" or "USD"
    selectedAsset,        \* App state: "BTC" or "GOLD"
    livePrices,           \* App state: the live price snapshot, or null
    thbUsdRate,           \* App state: number or null
    livePriceError,       \* App state: message or null
    livePriceLastUpdated, \* App state: time of the last snapshot, or null
    snapshotCall,         \* the call whose response the stored snapshot is (0: none)
    isRefreshing,         \* App state: the busy flag of handleRefresh
    mounted,              \* the effect of useEffect has run
    pending,              \* the asynchronous calls in flight
    issued,               \* number of asynchronous calls started so far
    now,                  \* the clock read by new Date()
    lastSettled           \* what the call that settled last met

dataVars == <<csvText, dcaResult>>
viewVars == <<timeRange, currency, selectedAsset>>
priceVars == <<livePrices, thbUsdRate, livePriceLastUpdated, snapshotCall>>
appVars == <<loading, error, allDcaData, timeRange, currency, selectedAsset,
             livePrices, thbUsdRate, livePriceError, livePriceLastUpdated,
             snapshotCall, isRefreshing, mounted, pending, issued, now, lastSettled>>
vars == <<csvText, dcaResult, loading, error, allDcaData, timeRange, currency,
          selectedAsset, livePrices, thbUsdRate, livePriceError,
          livePriceLastUpdated, snapshotCall, isRefreshing, mounted, pending,
          issued, now, lastSettled>>

\* the state of the component after its first render, before the effect
AppInit ==
    /\ loading = TRUE
    /\ error = null
    /\ allDcaData = null
    /\ timeRange = "Y"
    /\ currency = "THB"
    /\ selectedAsset = "BTC"
    /\ livePrices = null
    /\ thbUsdRate = null
    /\ livePriceError = null
    /\ livePriceLastUpdated = null
    /\ snapshotCall = 0
    /\ isRefreshing = FALSE
    /\ mounted = FALSE
    /\ pending = {}
    /\ issued = 0
    /\ now = 0
    /\ lastSettled = null

(***************************************************************************)
(* The sheet pipeline as a state machine: the sheet is written line by     *)
(* line and fetchAllDcaData is run on the text as it stands.               *)
(***************************************************************************)
DataInit ==
    /\ csvText = <<>>
    /\ dcaResult = null
    /\ AppInit

\* the header line is written
WriteHeader ==
    /\ csvText = <<>>
    /\ \E h \in Headers : csvText' = <<h>>
    /\ dcaResult' = null
    /\ UNCHANGED appVars

\* one more data line is written
WriteLine ==
    /\ Len(csvText) \in 1..MaxLines
    /\ \E line \in Lines : csvText' = Append(csvText, line)
    /\ dcaResult' = null
    /\ UNCHANGED appVars

\* fetchAllDcaData runs on the sheet
RunFetchAllDcaData ==
    /\ dcaResult = null
    /\ dcaResult' = fetchAllDcaData(csvText)
    /\ UNCHANGED csvText
    /\ UNCHANGED appVars

DataNext == WriteHeader \/ WriteLine \/ RunFetchAllDcaData

SpecData == DataInit /\ [][DataNext]_vars

(***************************************************************************)
(* App.tsx: values derived on every render                                 *)
(***************************************************************************)
\* currency.toLowerCase()
CurrencyKey(c) == IF c = "USD" THEN "usd" ELSE "thb"

conversionRate ==
    IF currency = "USD" /\ TruthyNum(thbUsdRate) THEN Div(Num(1), thbUsdRate) ELSE Num(1)

currentAssetData == IF allDcaData = null THEN null ELSE allDcaData[selectedAsset]

currentLivePrice ==
    IF livePrices = null THEN null ELSE livePrices[selectedAsset][CurrencyKey(currency)]

\* livePricePerGram blending the gold price without the division
livePricePerGramUndivided ==
    IF ~Truthy(currentLivePrice) THEN null ELSE currentLivePrice

livePricePerGram ==
    IF ~Truthy(currentLivePrice) THEN null
    ELSE IF selectedAsset = "GOLD"
         THEN [currentLivePrice EXCEPT !.price = Div(currentLivePrice.price, GOLD_CONVERSION_GRAMS)]
    ELSE currentLivePrice

\* Array.prototype.slice(-n)
LastN(arr, n) == IF Len(arr) <= n THEN arr ELSE SubSeq(arr, Len(arr) - n + 1, Len(arr))

filteredChartData ==
    IF currentAssetData = null \/ Truthy(currentAssetData.error) THEN <<>>
    ELSE LET data == CASE timeRange = "W" -> LastN(currentAssetData.chartData, 7)
                       [] timeRange = "M" -> LastN(currentAssetData.chartData, 30)
                       [] OTHER -> currentAssetData.chartData
         IN  [i \in 1..Len(data) |->
                [data[i] EXCEPT
                   !.portValue =
                       IF Truthy(livePricePerGram) /\ TruthyNum(data[i].cumulativeAmount)
                       THEN Mul(data[i].cumulativeAmount, livePricePerGram.price)
                       ELSE Mul(data[i].portValue, conversionRate),
                   !.assetValue = Mul(data[i].assetValue, conversionRate)]]

liveSummary ==
    IF currentAssetData = null \/ ~Truthy(currentAssetData.summaryData) THEN null
    ELSE LET summaryData == currentAssetData.summaryData
             convertedTotalCapital == Mul(summaryData.totalCapital, conversionRate)
             convertedEntryPrice == Mul(summaryData.entryPrice, conversionRate)
             livePortValue ==
                 IF Truthy(livePricePerGram)
                 THEN Mul(summaryData.totalAmount, livePricePerGram.price)
                 ELSE Mul(summaryData.portValue, conversionRate)
             liveProfitPercentage ==
                 IF Truthy(livePricePerGram)
                 THEN Mul(Div(Sub(livePortValue, convertedTotalCapital),
                              convertedTotalCapital), Num(100))
                 ELSE summaryData.profitPercentage
         IN  [summaryData EXCEPT !.portValue = livePortValue,
                                 !.profitPercentage = liveProfitPercentage,
                                 !.totalCapital = convertedTotalCapital,
                                 !.entryPrice = convertedEntryPrice]

\* what the component returns: the spinner, the error page, or the dashboard
\* with, for the selected asset, its data issue, "no data" or chart and summary
Page ==
    IF loading THEN "Loading"
    ELSE IF Truthy(error) /\ allDcaData = null THEN "Failed"
    ELSE "Dashboard"

MainPanel ==
    IF Page # "Dashboard" THEN "none"
    ELSE IF currentAssetData # null /\ Truthy(currentAssetData.error) THEN "DataIssue"
    ELSE IF liveSummary = null \/ currentAssetData = null
              \/ Len(currentAssetData.rawData) = 0 THEN "NoData"
    ELSE "Summary"

\* the amounts of the rows of the transaction history table, which is on
\* the page for an asset without data issue and with at least one row
TransactionHistory ==
    IF Page = "Dashboard" /\ currentAssetData # null
         /\ ~Truthy(currentAssetData.error) /\ Len(currentAssetData.rawData) > 0
    THEN [i \in 1..Len(currentAssetData.rawData) |->
            [invested |-> Mul(currentAssetData.rawData[i].invested, conversionRate),
             assetPrice |-> Mul(currentAssetData.rawData[i].assetPrice, conversionRate)]]
    ELSE <<>>

\* the live price block of the summary panel: the price, else the error
\* text, else the placeholder
LivePriceBlock ==
    IF Truthy(currentLivePrice) THEN "price"
    ELSE IF Truthy(livePriceError) THEN "error"
    ELSE "placeholder"

(***************************************************************************)
(* App.tsx: the page as a state machine                                    *)
(***************************************************************************)
\* the largest number of asynchronous calls started in one behaviour
MaxRequests == 3

HeaderAll ==
    <<cDate, cInvested, cBtcPrice, cBtcPurchased,
      cGoldDate, cGoldInvested, cGoldPrice, cGoldPurchased>>
LineA == <<tD1, <<"2">>, <<"0", ".", "2", "5">>, <<"0", ".", "5">>>> \o GoldCells
LineB == <<tD2, <<"1", ".", "5">>, <<"3">>, <<"0", ".", "1", "2", "5">>>> \o GoldCells

\* the sheets a sheet request can answer with: both assets with two rows,
\* and a sheet with the BTC columns only
Sheets ==
    { <<HeaderAll, LineA, LineB>>,
      <<SubSeq(HeaderAll, 1, 4), SubSeq(LineB, 1, 4), SubSeq(LineA, 1, 4)>> }

SheetStatusError == Message(<<"Failed to fetch from Google Sheets: ", "500">>)

\* the settled promise of fetchAllDcaData(): the bundles of the text
\* answered, or the error of a status that is not ok
SheetOutcomes ==
    {Resolved(fetchAllDcaData(text)) : text \in Sheets} \cup {Rejected(SheetStatusError)}

\* the settled promise of fetchLivePrices()
PriceOutcomes == {fetchLivePrices(feed) : feed \in Feeds}

\* new Date() at time t of the page's clock
Time(t) == [k |-> "time", t |-> t]

\* a call in flight: loadInitialData from the effect ("initial") or from
\* handleRefresh ("manual"), or the timer's fetchLivePrices ("timer");
\* error is the value of the state variable in the closure of the call
Call(id, kind) == [id |-> id, kind |-> kind, error |-> error]

\* the calls of a kind in flight
Calls(kind) == {call \in pending : call.kind = kind}

Start(kind) ==
    /\ issued < MaxRequests
    /\ issued' = issued + 1
    /\ pending' = pending \cup {Call(issued + 1, kind)}

\* useEffect: setLoading(true), loadInitialData() is started, the interval is set
Mount ==
    /\ ~mounted
    /\ mounted' = TRUE
    /\ loading' = TRUE
    /\ Start("initial")
    /\ UNCHANGED <<error, allDcaData, viewVars, priceVars, livePriceError,
                   isRefreshing, now, lastSettled>>
    /\ UNCHANGED dataVars

\* the interval fires: fetchLivePrices() is started
TimerTick ==
    /\ mounted
    /\ Start("timer")
    /\ UNCHANGED <<loading, error, allDcaData, viewVars, priceVars, livePriceError,
                   isRefreshing, mounted, now, lastSettled>>
    /\ UNCHANGED dataVars

\* TimerSettles dropping the snapshot when the fetch fails
TimerSettlesDropsSnapshot(call, prices) ==
    /\ call \in pending /\ call.kind = "timer"
    /\ pending' = pending \ {call}
    /\ now' = now + 1
    /\ lastSettled' = [kind |-> call.kind, sheet |-> "none", prices |-> prices.k]
    /\ IF prices.k = "resolved"
       THEN /\ livePrices' = prices.value.prices
            /\ thbUsdRate' = prices.value.thbUsdRate
            /\ livePriceLastUpdated' = Time(now')
            /\ snapshotCall' = call.id
            /\ UNCHANGED livePriceError
       ELSE /\ livePriceError' = prices.message
            /\ livePrices' = null
            /\ thbUsdRate' = null
            /\ UNCHANGED <<livePriceLastUpdated, snapshotCall>>
    /\ UNCHANGED <<loading, error, allDcaData, viewVars, isRefreshing, mounted, issued>>
    /\ UNCHANGED dataVars

\* the then/catch of the timer's fetchLivePrices()
TimerSettles(call, prices) ==
    /\ call \in pending /\ call.kind = "timer"
    /\ pending' = pending \ {call}
    /\ now' = now + 1
    /\ lastSettled' = [kind |-> call.kind, sheet |-> "none", prices |-> prices.k]
    /\ IF prices.k = "resolved"
       THEN /\ livePrices' = prices.value.prices
            /\ thbUsdRate' = prices.value.thbUsdRate
            /\ livePriceLastUpdated' = Time(now')
            /\ snapshotCall' = call.id
            /\ UNCHANGED livePriceError
       ELSE /\ livePriceError' = prices.message
            /\ UNCHANGED priceVars
    /\ UNCHANGED <<loading, error, allDcaData, viewVars, isRefreshing, mounted, issued>>
    /\ UNCHANGED dataVars

\* loadInitialData without setLivePriceLastUpdated(new Date())
loadInitialDataKeepsTime(call, sheet, prices) ==
    IF sheet.k = "resolved" /\ prices.k = "resolved"
    THEN /\ allDcaData' = sheet.value
         /\ livePrices' = prices.value.prices
         /\ thbUsdRate' = prices.value.thbUsdRate
         /\ snapshotCall' = call.id
         /\ error' = IF Truthy(call.error) THEN null ELSE error
         /\ UNCHANGED <<livePriceError, livePriceLastUpdated>>
    ELSE /\ \E failed \in {o \in {sheet, prices} : o.k = "rejected"} :
              /\ error' = failed.message
              /\ livePriceError' = failed.message
         /\ UNCHANGED <<allDcaData, priceVars>>

\* the state updates of loadInitialData once Promise.all has settled
loadInitialData(call, sheet, prices) ==
    IF sheet.k = "resolved" /\ prices.k = "resolved"
    THEN /\ allDcaData' = sheet.value
         /\ livePrices' = prices.value.prices
         /\ thbUsdRate' = prices.value.thbUsdRate
         /\ livePriceLastUpdated' = Time(now')
         /\ snapshotCall' = call.id
         /\ error' = IF Truthy(call.error) THEN null ELSE error
         /\ UNCHANGED livePriceError
    ELSE /\ \E failed \in {o \in {sheet, prices} : o.k = "rejected"} :
              /\ error' = failed.message
              /\ livePriceError' = failed.message
         /\ UNCHANGED <<allDcaData, priceVars>>

\* initialLoad awaiting the sheet before the prices: the sheet data fetched
\* are stored although the price fetch then fails
InitialLoadSettlesSheetFirst(call, sheet, prices) ==
    /\ call \in pending /\ call.kind = "initial"
    /\ pending' = pending \ {call}
    /\ now' = now + 1
    /\ lastSettled' = [kind |-> call.kind, sheet |-> sheet.k, prices |-> prices.k]
    /\ IF sheet.k = "resolved" /\ prices.k = "rejected"
       THEN /\ allDcaData' = sheet.value
            /\ error' = prices.message
            /\ livePriceError' = prices.message
            /\ UNCHANGED priceVars
       ELSE loadInitialData(call, sheet, prices)
    /\ loading' = FALSE
    /\ UNCHANGED <<viewVars, isRefreshing, mounted, issued>>
    /\ UNCHANGED dataVars

\* initialLoad resumes after await loadInitialData(): setLoading(false)
InitialLoadSettles(call, sheet, prices) ==
    /\ call \in pending /\ call.kind = "initial"
    /\ pending' = pending \ {call}
    /\ now' = now + 1
    /\ lastSettled' = [kind |-> call.kind, sheet |-> sheet.k, prices |-> prices.k]
    /\ loadInitialData(call, sheet, prices)
    /\ loading' = FALSE
    /\ UNCHANGED <<viewVars, isRefreshing, mounted, issued>>
    /\ UNCHANGED dataVars

\* a refresh button that is on every page, the error page included
RefreshButtonOnEveryPage == TRUE

\* the refresh button is part of the chart panel
RefreshButtonShown == MainPanel = "Summary"

\* handleRefresh without the test of the busy flag
handleRefreshUnguarded ==
    /\ RefreshButtonShown
    /\ isRefreshing' = TRUE
    /\ Start("manual")
    /\ UNCHANGED <<loading, error, allDcaData, viewVars, priceVars, livePriceError,
                   mounted, now, lastSettled>>
    /\ UNCHANGED dataVars

\* handleRefresh up to its await: nothing while isRefreshing is set
handleRefresh ==
    /\ RefreshButtonShown
    /\ IF isRefreshing
       THEN UNCHANGED <<isRefreshing, pending, issued>>
       ELSE /\ isRefreshing' = TRUE
            /\ Start("manual")
    /\ UNCHANGED <<loading, error, allDcaData, viewVars, priceVars, livePriceError,
                   mounted, now, lastSettled>>
    /\ UNCHANGED dataVars

\* handleRefresh without the catch: a rejected load skips setIsRefreshing(false)
RefreshSettlesUncaught(call, sheet, prices) ==
    /\ call \in pending /\ call.kind = "manual"
    /\ pending' = pending \ {call}
    /\ now' = now + 1
    /\ lastSettled' = [kind |-> call.kind, sheet |-> sheet.k, prices |-> prices.k]
    /\ loadInitialData(call, sheet, prices)
    /\ isRefreshing' = ~(sheet.k = "resolved" /\ prices.k = "resolved")
    /\ UNCHANGED <<loading, viewVars, mounted, issued>>
    /\ UNCHANGED dataVars

\* handleRefresh resumes after await loadInitialData(): setIsRefreshing(false)
RefreshSettles(call, sheet, prices) ==
    /\ call \in pending /\ call.kind = "manual"
    /\ pending' = pending \ {call}
    /\ now' = now + 1
    /\ lastSettled' = [kind |-> call.kind, sheet |-> sheet.k, prices |-> prices.k]
    /\ loadInitialData(call, sheet, prices)
    /\ isRefreshing' = FALSE
    /\ UNCHANGED <<loading, viewVars, mounted, issued>>
    /\ UNCHANGED dataVars

\* the asset and currency buttons of the dashboard header
SetSelectedAsset(asset) ==
    /\ Page = "Dashboard"
    /\ selectedAsset' = asset
    /\ UNCHANGED <<loading, error, allDcaData, timeRange, currency, priceVars,
                   livePriceError, isRefreshing, mounted, pending, issued, now,
                   lastSettled>>
    /\ UNCHANGED dataVars

SetCurrency(c) ==
    /\ Page = "Dashboard"
    /\ currency' = c
    /\ UNCHANGED <<loading, error, allDcaData, timeRange, selectedAsset, priceVars,
                   livePriceError, isRefreshing, mounted, pending, issued, now,
                   lastSettled>>
    /\ UNCHANGED dataVars

\* the time range buttons of the chart panel
SetTimeRange(range) ==
    /\ MainPanel = "Summary"
    /\ timeRange' = range
    /\ UNCHANGED <<loading, error, allDcaData, currency, selectedAsset, priceVars,
                   livePriceError, isRefreshing, mounted, pending, issued, now,
                   lastSettled>>
    /\ UNCHANGED dataVars

Init ==
    /\ AppInit
    /\ csvText = <<>>
    /\ dcaResult = null

Next ==
    \/ Mount
    \/ TimerTick
    \/ \E call \in Calls("timer") :
         \E prices \in PriceOutcomes : TimerSettles(call, prices)
    \/ \E call \in Calls("initial") :
         \E sheet \in SheetOutcomes, prices \in PriceOutcomes :
           InitialLoadSettles(call, sheet, prices)
    \/ handleRefresh
    \/ \E call \in Calls("manual") :
         \E sheet \in SheetOutcomes, prices \in PriceOutcomes :
           RefreshSettles(call, sheet, prices)
    \/ \E asset \in AssetType : SetSelectedAsset(asset)
    \/ \E c \in {"THB", "USD"} : SetCurrency(c)
    \/ \E range \in {"W", "M", "Y"} : SetTimeRange(range)

Spec == Init /\ [][Next]_vars

\* the fetch of a call in flight resolves or rejects and the call resumes:
\* the step of InitialLoadSettles ("initial"), RefreshSettles ("manual")
\* or TimerSettles ("timer") that takes the call out of pending
FetchSettles(kind) == \E call \in Calls(kind) : pending' = pending \ {call}

\* the page with its scheduling: the effect runs once the component is
\* mounted, and every fetch issued resolves or rejects in the end
SpecLive ==
    /\ Spec
    /\ WF_vars(Mount)
    /\ WF_pending(FetchSettles("initial"))
    /\ WF_pending(FetchSettles("manual"))
    /\ WF_pending(FetchSettles("timer"))

(***************************************************************************)
(* Properties of the sheet pipeline                                        *)
(***************************************************************************)
\* the sum of field f of rows 1..i, taken from the rows themselves
RECURSIVE SumOfInvested(_, _)
SumOfInvested(rows, i) ==
    IF i = 0 THEN Num(0) ELSE Add(rows[i].invested, SumOfInvested(rows, i - 1))
RECURSIVE SumOfPurchased(_, _)
SumOfPurchased(rows, i) ==
    IF i = 0 THEN Num(0) ELSE Add(rows[i].assetPurchased, SumOfPurchased(rows, i - 1))

\* r is x rounded to 2 decimals: a multiple of 1/100 at most 1/200 away
IsRounded2(x, r) ==
    /\ IsFin(x) /\ IsFin(r)
    /\ 100 % r.d = 0
    /\ LET diff == Sub(x, r)
       IN  Ge(Fin(1, 200), IF Gt(Num(0), diff) THEN Neg(diff) ELSE diff)

\* the rows parseCsv returns for an asset of the fetched sheet
RowsOf(asset) == parseCsv(csvText, asset).data

\* the header of the fetched sheet has all four columns of the asset
HasAllColumns(asset) ==
    LET header == TrimCells(TrimSplitLines(csvText)[1])
    IN  \A i \in 1..4 : \E j \in 1..Len(header) : header[j] = ColumnNames(asset)[i]

\* C1: for a non-empty sequence of transaction records processData returns
\* as many chart points in the same order; point i has portValue = (sum of
\* assetPurchased over rows 1..i) * assetPrice of row i rounded to 2
\* decimals, assetValue = (sum of invested over rows 1..i) rounded to 2
\* decimals, and cumulativeAmount = the unrounded sum of assetPurchased.
C1_ChartPoints ==
    dcaResult # null =>
      \A a \in AssetType :
        LET data == RowsOf(a)
            chart == dcaResult[a].chartData
        IN  Len(data) > 0 =>
              /\ Len(chart) = Len(data)
              /\ dcaResult[a].rawData = data
              /\ \A i \in 1..Len(data) :
                   /\ chart[i].date = ShortDateLabel(data[i].date)
                   /\ IsRounded2(Mul(SumOfPurchased(data, i), data[i].assetPrice),
                                 chart[i].portValue)
                   /\ IsRounded2(SumOfInvested(data, i), chart[i].assetValue)
                   /\ chart[i].cumulativeAmount = SumOfPurchased(data, i)

\* C1 witness: a fetched sheet with at least two chart points for an asset,
\* one of them with a value that rounding changed
C1_Witness ==
    /\ dcaResult # null
    /\ \E a \in AssetType :
         /\ Len(dcaResult[a].chartData) >= 2
         /\ \E i \in 2..Len(dcaResult[a].chartData) :
              /\ dcaResult[a].chartData[i].portValue
                   # Mul(SumOfPurchased(RowsOf(a), i), RowsOf(a)[i].assetPrice)
              /\ dcaResult[a].chartData[i].cumulativeAmount
                   # RowsOf(a)[i].assetPurchased

\* C2: with all four columns in the header, the returned records hold no
\* row with invested <= 0, no row with a NaN invested/price/purchased and
\* no row whose date failed to parse.
C2_NoInvalidRows ==
    dcaResult # null =>
      \A a \in AssetType :
        HasAllColumns(a) =>
          \A i \in 1..Len(dcaResult[a].rawData) :
            LET d == dcaResult[a].rawData[i]
            IN  /\ d.date.valid
                /\ ~isNaN(d.invested) /\ ~isNaN(d.assetPrice) /\ ~isNaN(d.assetPurchased)
                /\ Gt(d.invested, Num(0))

\* the bundle of an asset whose columns were not found: the message names
\* the asset and the four expected headers; no rows, no points, no summary
IsColumnsErrorBundle(bundle, asset) ==
    /\ bundle.error.k = "msg"
    /\ Len(bundle.error.parts) = 8
    /\ bundle.error.parts[2] = asset
    /\ \A i \in 1..4 : bundle.error.parts[3 + i] = ColumnNames(asset)[i]
    /\ bundle.rawData = <<>>
    /\ bundle.chartData = <<>>
    /\ bundle.summaryData = null

\* the lines of the sheet cut down to the four columns of an asset, found
\* by their header names (an empty cell where a column or a cell is missing)
OnlyColumnsOf(asset) ==
    LET lines == TrimSplitLines(csvText)
        header == TrimCells(lines[1])
        idx == [i \in 1..4 |-> indexOf(header, ColumnNames(asset)[i])]
        Cell(line, i) == IF idx[i] + 1 \in 1..Len(line) THEN line[idx[i] + 1] ELSE <<>>
    IN  [n \in 1..Len(lines) |-> [i \in 1..4 |-> Cell(lines[n], i)]]

OtherAsset(asset) == IF asset = "BTC" THEN "GOLD" ELSE "BTC"

C8_MonotoneSeries ==
    dcaResult # null =>
      \A a \in AssetType :
        LET chart == dcaResult[a].chartData
        IN  \A i \in 1..(Len(chart) - 1) :
              /\ Ge(chart[i + 1].cumulativeAmount, chart[i].cumulativeAmount)
              /\ Ge(chart[i + 1].assetValue, chart[i].assetValue)

\* C9: for a non-empty filtered record set total units is non-zero and the
\* summary is: entry price = total invested / total units, total capital =
\* sum of invested, final value = total units * last recorded price,
\* profit % = (final value - capital) / capital * 100.
C9_SummaryDefined ==
    dcaResult # null =>
      \A a \in AssetType :
        LET data == dcaResult[a].rawData
            sum == dcaResult[a].summaryData
            n == Len(data)
        IN  n > 0 =>
              /\ sum # null
              /\ sum.totalAmount # Num(0)
              /\ IsFin(sum.entryPrice)
              /\ sum.totalCapital = SumOfInvested(data, n)
              /\ sum.totalAmount = SumOfPurchased(data, n)
              /\ Mul(sum.entryPrice, sum.totalAmount) = sum.totalCapital
              /\ sum.portValue = Mul(sum.totalAmount, data[n].assetPrice)
              /\ Mul(sum.profitPercentage, sum.totalCapital)
                   = Mul(Sub(sum.portValue, sum.totalCapital), Num(100))

(***************************************************************************)
(* Properties of the page                                                  *)
(***************************************************************************)
\* transaction data is on display: loading is over and the bundles are stored
Ready == ~loading /\ allDcaData # null

\* a number that is present: finite, not NaN and not undefined
Present(x) == x.k = "fin"

CompletePriceInfo(info) ==
    Present(info.price) /\ Present(info.change24h) /\ Present(info.change24hPercentage)

\* C4: the price fetch is all-or-nothing: with a failed request or an absent
\* price, 24-hour change or 24-hour percentage of either asset in either
\* currency nothing is stored, so the stored prices and the stored rate
\* always come from one complete response.
C4_AllOrNothing ==
    livePrices # null =>
      /\ \A a \in AssetType : \A c \in {"thb", "usd"} : CompletePriceInfo(livePrices[a][c])
      /\ Present(thbUsdRate)
      /\ thbUsdRate = Div(livePrices["BTC"]["thb"].price, livePrices["BTC"]["usd"].price)

\* the call that settled last met a failing price fetch while the sheet was
\* fetched (by that call, or before it for the timer's price-only fetch)
PriceFetchFailedSheetFetched ==
    /\ lastSettled # null
    /\ lastSettled.prices = "rejected"
    /\ \/ lastSettled.sheet = "resolved"
       \/ lastSettled.sheet = "none" /\ allDcaData # null

\* C5: when the sheet was fetched and the live price fetch failed, at
\* start-up or on a later refresh, the page is not the error page: it shows
\* the summary without live blending (port value = total units * the last
\* row's price) and the error text.
C5_PriceFailureKeepsSummary ==
    (PriceFetchFailedSheetFetched /\ ~loading) =>
      /\ Page = "Dashboard"
      /\ allDcaData # null
      /\ MainPanel = "Summary" =>
           /\ liveSummary.portValue
                = Mul(Mul(currentAssetData.summaryData.totalAmount,
                          currentAssetData.rawData[Len(currentAssetData.rawData)].assetPrice),
                      conversionRate)
           /\ LivePriceBlock = "error"

\* a timer call settles in this step
TimerSettled == \E call \in pending : call.kind = "timer" /\ call \notin pending'
TimerStarted == \E call \in pending' : call.kind = "timer" /\ call \notin pending

\* C6: once Ready, the periodic refresh touches live prices only: started or
\* settled, succeeding or failing, it leaves the bundles, the page error and
\* the loading flag as they are; a failing refresh keeps the page Ready,
\* keeps the previous snapshot and records an error message.
C6_TimerRefreshPricesOnly ==
    [][(Ready /\ (TimerSettled \/ TimerStarted)) =>
         /\ UNCHANGED <<allDcaData, error, loading>>
         /\ Ready'
         /\ (TimerSettled /\ lastSettled'.prices = "rejected") =>
              /\ UNCHANGED priceVars
              /\ livePriceError' = CouldNotFetchLivePrices]_vars

\* C6 witness: Ready, the timer's fetch has just failed, the snapshot of an
\* earlier fetch is still stored and the error is recorded
C6_Witness ==
    /\ Ready
    /\ lastSettled # null /\ lastSettled.kind = "timer" /\ lastSettled.prices = "rejected"
    /\ livePrices # null
    /\ livePriceError = CouldNotFetchLivePrices

\* C7 as stated: while isRefreshing is set no step starts a fetch, so that
\* at most one refresh is in flight.
C7_NoFetchWhileRefreshing ==
    [][isRefreshing => (pending' \subseteq pending /\ Cardinality(pending') <= 1)]_vars

\* the manual refreshes among a set of calls
Manual(calls) == {call \in calls : call.kind = "manual"}

\* C7 amended: while isRefreshing is set a further call of handleRefresh
\* changes nothing and starts no fetch, so at most one manual refresh is in
\* flight (the timer's price fetch is not held back by the flag).
C7_ManualRefreshGuarded ==
    [][/\ Cardinality(Manual(pending')) <= 1
       /\ isRefreshing => Manual(pending') \subseteq Manual(pending)
       /\ (isRefreshing /\ handleRefresh) => UNCHANGED vars]_vars

\* C7 witness: a manual refresh is in flight with the flag set while the
\* refresh button is on the page and one more call could still be started
C7_Witness ==
    /\ isRefreshing
    /\ Cardinality(Manual(pending)) = 1
    /\ RefreshButtonShown
    /\ issued < MaxRequests

\* the figures the summary panel is to show with a live price
BlendedPortValue ==
    LET unitPrice == IF selectedAsset = "GOLD"
                     THEN Div(currentLivePrice.price, Fin(1471, 100))
                     ELSE currentLivePrice.price
    IN  Mul(currentAssetData.summaryData.totalAmount, unitPrice)
ConvertedCapital ==
    IF currency = "USD" /\ thbUsdRate.k \in {"fin", "inf"} /\ thbUsdRate # Num(0)
    THEN Div(currentAssetData.summaryData.totalCapital, thbUsdRate)
    ELSE currentAssetData.summaryData.totalCapital

\* C10: with a live price for the selected asset and currency the summary
\* shown has port value = total units * live unit price (the gold price
\* first divided by 14.71) and profit % = (port value - converted capital)
\* / converted capital * 100; the stored summary stays the historical one.
C10_LiveBlending ==
    (currentLivePrice # null /\ currentAssetData # null
       /\ currentAssetData.summaryData # null) =>
      /\ liveSummary.portValue = BlendedPortValue
      /\ liveSummary.profitPercentage
           = Mul(Div(Sub(BlendedPortValue, ConvertedCapital), ConvertedCapital), Num(100))
      /\ currentAssetData.summaryData
           = processData(currentAssetData.rawData).summaryData

\* C10 witness: the gold summary in USD with a live price that moves the
\* port value away from the historical one
C10_Witness ==
    /\ MainPanel = "Summary"
    /\ selectedAsset = "GOLD" /\ currency = "USD"
    /\ currentLivePrice # null /\ Present(currentLivePrice.price)
    /\ liveSummary.portValue # Mul(currentAssetData.summaryData.portValue, conversionRate)
    /\ liveSummary.portValue # Mul(currentAssetData.summaryData.totalAmount,
                                   currentLivePrice.price)

\* the stored chart points of the selected asset that the time range selects
SelectedChartPoints ==
    CASE timeRange = "W" -> LastN(currentAssetData.chartData, 7)
      [] timeRange = "M" -> LastN(currentAssetData.chartData, 30)
      [] OTHER -> currentAssetData.chartData

\* C11: every chart point shown is the stored chart point selected by the
\* time range, its port value (cumulative units * that row's price) scaled
\* by the conversion rate only, whether or not a live price is stored.
C11_HistoricalCurveNotBackfilled ==
    MainPanel = "Summary" =>
      /\ Len(filteredChartData) = Len(SelectedChartPoints)
      /\ \A i \in 1..Len(SelectedChartPoints) :
           filteredChartData[i].portValue
             = Mul(SelectedChartPoints[i].portValue, conversionRate)

\* a base-currency figure in USD, by the rate BTC price in THB / BTC price in USD
InUsd(value) == Mul(value, Div(Num(1), thbUsdRate))

\* C12: the conversion factor is exactly 1 in THB; in USD the stored rate is
\* BTC price in THB / BTC price in USD, the factor is 1 / rate, the figures
\* not overridden by live blending (total capital, entry price, invested
\* series, transaction history amounts) are the base figures * (1 / rate),
\* and a figure converted to USD and back by the rate is the base figure.
C12_LinearCurrencyScale ==
    /\ currency = "THB" => conversionRate = Num(1)
    /\ (currency = "USD" /\ livePrices # null) =>
         /\ thbUsdRate = Div(livePrices["BTC"]["thb"].price, livePrices["BTC"]["usd"].price)
         /\ conversionRate = Div(Num(1), thbUsdRate)
         /\ MainPanel = "Summary" =>
              LET summaryData == currentAssetData.summaryData
                  rawData == currentAssetData.rawData
              IN  /\ liveSummary.totalCapital = InUsd(summaryData.totalCapital)
                  /\ liveSummary.entryPrice = InUsd(summaryData.entryPrice)
                  /\ Mul(liveSummary.totalCapital, thbUsdRate) = summaryData.totalCapital
                  /\ \A i \in 1..Len(SelectedChartPoints) :
                       filteredChartData[i].assetValue
                         = InUsd(SelectedChartPoints[i].assetValue)
                  /\ \A i \in 1..Len(rawData) :
                       /\ TransactionHistory[i].invested = InUsd(rawData[i].invested)
                       /\ TransactionHistory[i].assetPrice = InUsd(rawData[i].assetPrice)

\* the same with a stored rate that is a non-zero finite number
C12_LinearScaleWithFiniteRate ==
    (Present(thbUsdRate) /\ thbUsdRate # Num(0)) => C12_LinearCurrencyScale

\* the error page: loading is over, an error is set, no transaction data
Failed == ~loading /\ Truthy(error) /\ allDcaData = null

\* the joint fetch that settled last errored
JointFetchErrored ==
    /\ lastSettled # null
    /\ lastSettled.sheet = "rejected" \/ lastSettled.prices = "rejected"

\* C13: with every fetch settling in the end, the page leaves Loading for
\* good and is from then on Ready or Failed, Failed exactly when the joint
\* fetch of start-up errored; and a busy flag set by a manual refresh is
\* cleared in the end, whether the refresh succeeds or fails.
C13_LeavesLoadingAndClearsBusy ==
    /\ <>[](~loading)
    /\ [](~loading => (Ready \/ Failed))
    /\ [][(loading /\ ~loading') => (Failed' <=> JointFetchErrored')]_vars
    /\ isRefreshing ~> ~isRefreshing

\* C13 witness: Ready, a manual refresh has just failed and its busy flag
\* is cleared again
C13_Witness ==
    /\ Ready
    /\ lastSettled # null /\ lastSettled.kind = "manual"
    /\ lastSettled.sheet = "rejected" \/ lastSettled.prices = "rejected"
    /\ ~isRefreshing

\* C14 as stated: the stored snapshot is that of the most recently issued
\* fetch among those that completed successfully, so no step replaces the
\* snapshot of a request by that of a request issued before it.
C14_NewestRequestWins ==
    [][snapshotCall' >= snapshotCall]_vars

\* the calls that settle in a step, and whether their fetch succeeded
SettledCalls == pending \ pending'
FetchSucceeded ==
    /\ lastSettled'.prices = "resolved"
    /\ lastSettled'.sheet \in {"resolved", "none"}

\* C14 amended: the stored snapshot and its last-updated time always come
\* from the fetch that completed successfully last, in the order of
\* completion: every successful completion installs its own snapshot with
\* the time of completion, whatever request installed the previous one, and
\* no other step touches the snapshot.
C14_LatestResponseWins ==
    [][IF SettledCalls # {} /\ FetchSucceeded
       THEN \A call \in SettledCalls :
              /\ snapshotCall' = call.id
              /\ livePriceLastUpdated' = Time(now')
              /\ livePrices' # null /\ thbUsdRate' # null
       ELSE UNCHANGED priceVars]_vars

\* C14 witness: every call issued has settled and none has failed, and the
\* snapshot stored, with the time of the last completion, is that of a
\* request older than the newest one: its late response replaced the
\* snapshot of a newer request
C14_Witness ==
    /\ pending = {} /\ now = issued
    /\ livePriceError = null /\ error = null
    /\ snapshotCall # 0 /\ snapshotCall < issued
    /\ livePriceLastUpdated = Time(now)

\* C15: Failed is absorbing: from the error page every step, a timer tick
\* and the success or failure of its price fetch included, leads to the
\* error page again, with no transaction data, the same error and no
\* manual refresh started.
C15_FailedIsAbsorbing ==
    [][Failed =>
         /\ Failed'
         /\ UNCHANGED <<allDcaData, error, loading>>
         /\ Manual(pending') = {}]_vars

\* C15 witness: on the error page a timer's price fetch has just succeeded
\* and its snapshot is stored
C15_Witness ==
    /\ Failed
    /\ lastSettled # null /\ lastSettled.kind = "timer" /\ lastSettled.prices = "resolved"
    /\ livePrices # null

\* C16: whenever transaction data are stored, a live price snapshot with an
\* entry for both assets in both currencies and a conversion rate are
\* stored too, so the summary shown is the blended one; transaction data
\* are only stored by a joint load that succeeded, together with the
\* snapshot of that load, and a stored snapshot is never reset to absent.
C16_DataComesWithPrices ==
    /\ [](allDcaData # null =>
           /\ livePrices # null /\ thbUsdRate # null /\ livePriceLastUpdated # null
           /\ \A a \in AssetType : \A c \in {"thb", "usd"} : Truthy(livePrices[a][c])
           /\ Truthy(livePricePerGram)
           /\ liveSummary # null =>
                liveSummary.portValue
                  = Mul(currentAssetData.summaryData.totalAmount, livePricePerGram.price))
    /\ [][allDcaData' # allDcaData =>
            /\ FetchSucceeded /\ lastSettled'.sheet = "resolved"
            /\ \A call \in SettledCalls : snapshotCall' = call.id
            /\ livePrices' # null /\ thbUsdRate' # null]_vars
    /\ [][livePrices # null => livePrices' # null /\ thbUsdRate' # null]_vars

\* C16 witness: the summary is shown, the price fetch of the refresh that
\* settled last has failed, and the port value shown is still the blended
\* one of the snapshot kept
C16_Witness ==
    /\ MainPanel = "Summary"
    /\ lastSettled # null /\ lastSettled.prices = "rejected"
    /\ Truthy(livePriceError)
    /\ livePrices # null /\ Truthy(livePricePerGram)
    /\ liveSummary.portValue
         = Mul(currentAssetData.summaryData.totalAmount, livePricePerGram.price)
====
